---- MODULE Spec2Model ----
(***************************************************************************)
(* rename_mod_time: renames a batch of files to their formatted            *)
(* modification time (src/bin/rename_mod_time/ray_file.rs, main.rs).       *)
(*                                                                         *)
(* A Rust String is modelled as a sequence of Unicode code points; its     *)
(* len() is the number of UTF-8 bytes of those code points.  A panic       *)
(* (unwrap on None/Err, todo!, panic!) ends the process: pc = "panicked".  *)
(***************************************************************************)
EXTENDS Integers, Sequences, FiniteSets, TLC

\* ------------------------------------------------------------------ bounds
MaxNameLen == 3
MaxLineLen == 2
MaxFiles == 2
MaxPrompts == 2
MaxTime == 1

\* ------------------------------------------------- characters of the source
DOT == 46
SLASH == 47
PERCENT == 37
SPEC_S == 83
CH_y == 121
CH_Y == 89
CH_n == 110
CH_N == 78

CHINESE_UNICODE_RANGE ==
  << <<19968, 40959>>,    \* 0x04E00 .. 0x09FFF
     <<13312, 19903>>,    \* 0x03400 .. 0x04DBF
     <<131072, 173791>>,  \* 0x20000 .. 0x2A6DF
     <<173824, 192095>>,  \* 0x2A700 .. 0x2EE5F
     <<196608, 205743>>,  \* 0x30000 .. 0x323AF
     <<63744, 64255>> >>  \* 0x0F900 .. 0x0FAFF

\* ----------------------------------------------------------------- strings
SeqsUpTo(S, n) == UNION {[1..k -> S] : k \in 0..n}

Max2(a, b) == IF a >= b THEN a ELSE b

\* bytes of the UTF-8 encoding of one code point (what String::len counts)
Utf8Len(c) ==
  IF c < 128 THEN 1 ELSE IF c < 2048 THEN 2 ELSE IF c < 65536 THEN 3 ELSE 4

RECURSIVE ByteLen(_)
ByteLen(s) == IF s = <<>> THEN 0 ELSE Utf8Len(Head(s)) + ByteLen(Tail(s))

\* number of characters (code points): str.chars().count()
CharLen(s) == Len(s)

Contains(s, c) == \E i \in 1..Len(s) : s[i] = c

StartsWith(s, c) == Len(s) > 0 /\ s[1] = c

\* str::rfind of a one-character pattern: position of the last match, 0 = None
RFind(s, c) ==
  IF Contains(s, c)
  THEN CHOOSE i \in 1..Len(s) : s[i] = c /\ \A j \in (i+1)..Len(s) : s[j] # c
  ELSE 0

\* char::is_whitespace (the Unicode White_Space property)
IsWhitespace(c) ==
  \/ c \in 9..13
  \/ c \in {32, 133, 160, 5760, 8232, 8233, 8239, 8287, 12288}
  \/ c \in 8192..8202

RECURSIVE TrimStart(_)
TrimStart(s) ==
  IF s # <<>> /\ IsWhitespace(Head(s)) THEN TrimStart(Tail(s)) ELSE s

RECURSIVE TrimEnd(_)
TrimEnd(s) ==
  IF s # <<>> /\ IsWhitespace(s[Len(s)])
  THEN TrimEnd(SubSeq(s, 1, Len(s) - 1))
  ELSE s

\* str::trim
Trim(s) == TrimEnd(TrimStart(s))

\* ----------------------------------------------------------------- RayFile
RayFile(name, ext) == [f_name |-> name, f_ext |-> ext]

\* RayFile::from; ok = FALSE is a panic (todo! on '/', unwrap of rfind's None)
RayFileFrom(f_full_name) ==
  IF Contains(f_full_name, SLASH)
  THEN [ok |-> FALSE, file |-> RayFile(<<>>, <<>>)]
  ELSE IF StartsWith(f_full_name, DOT)
  THEN [ok |-> TRUE, file |-> RayFile(f_full_name, <<>>)]
  ELSE LET ext_dot_position == RFind(f_full_name, DOT)
       IN  IF ext_dot_position = 0
           THEN [ok |-> FALSE, file |-> RayFile(<<>>, <<>>)]
           ELSE [ok |-> TRUE,
                 file |-> RayFile(
                   SubSeq(f_full_name, 1, ext_dot_position - 1),
                   SubSeq(f_full_name, ext_dot_position + 1, Len(f_full_name)))]

\* impl Display for RayFile (to_string)
Display(f) ==
  IF f.f_ext = <<>> THEN f.f_name ELSE f.f_name \o <<DOT>> \o f.f_ext

\* RayFile::full_len
FullLen(f) ==
  ByteLen(f.f_name) + (IF f.f_ext = <<>> THEN 0 ELSE 1 + ByteLen(f.f_ext))

\* RayFile::ext_len
ExtLen(f) == ByteLen(f.f_ext)

IsChinese(c) ==
  \E k \in 1..Len(CHINESE_UNICODE_RANGE) :
    c >= CHINESE_UNICODE_RANGE[k][1] /\ c <= CHINESE_UNICODE_RANGE[k][2]

RECURSIVE ChineseCount(_)
ChineseCount(s) ==
  IF s = <<>> THEN 0
  ELSE (IF Head(s) < 128 THEN 0 ELSE IF IsChinese(Head(s)) THEN 1 ELSE 0)
       + ChineseCount(Tail(s))

\* RayFile::get_chinese_length_offset_value
ChineseOffset(f) == ChineseCount(f.f_name)

\* ------------------------------------------------------- chrono, std::fs
Times == 0..MaxTime

\* DateTime<Local>::format(time_format).to_string(), for patterns made of
\* literal characters and the %S specifier (seconds, two digits, zero padded)
RECURSIVE ChronoFormat(_, _)
ChronoFormat(t, fmt) ==
  IF fmt = <<>> THEN <<>>
  ELSE IF Head(fmt) = PERCENT /\ Len(fmt) >= 2 /\ fmt[2] = SPEC_S
  THEN <<48 + ((t % 60) \div 10), 48 + (t % 10)>>
       \o ChronoFormat(t, SubSeq(fmt, 3, Len(fmt)))
  ELSE <<Head(fmt)>> \o ChronoFormat(t, Tail(fmt))

\* the directory: file name -> modification time
FsExists(fsys, name) == name \in DOMAIN fsys

\* fs::rename on success: the source name disappears, the destination name
\* (replaced when it exists) holds the source file, modification time kept
FsRename(fsys, old, new) ==
  [n \in (DOMAIN fsys \ {old}) \cup {new} |->
     IF n = new THEN fsys[old] ELSE fsys[n]]

\* RayFile::get_renamed_instance, metadata read succeeded
GetRenamedInstanceNoExt(f, fsys, time_format) ==
  RayFile(ChronoFormat(fsys[Display(f)], time_format), <<>>)

GetRenamedInstance(f, fsys, time_format) ==
  RayFile(ChronoFormat(fsys[Display(f)], time_format), f.f_ext)

\* ------------------------------------------------------------- RayFileList
MaxOf(s) == CHOOSE m \in {s[i] : i \in 1..Len(s)} :
              \A i \in 1..Len(s) : s[i] <= m

Min2(a, b) == IF a <= b THEN a ELSE b

\* line 39: max(3, max of full_len)
MaxLenInputNoFloor(file_list) == MaxOf([i \in 1..Len(file_list) |-> FullLen(file_list[i])])

MaxLenInput(file_list) == Max2(3, MaxOf([i \in 1..Len(file_list) |-> FullLen(file_list[i])]))

\* lines 41-43
MaxLenOutput(file_list, time_format, now) ==
  LET time_str_len == ByteLen(ChronoFormat(now, time_format))
      max_ext_len == MaxOf([i \in 1..Len(file_list) |-> ExtLen(file_list[i])])
  IN  Max2(3, time_str_len + 1 + max_ext_len)

\* RayFileList::from; ok = FALSE is a panic: of RayFile::from, or of
\* max().unwrap() on an empty list
RayFileListFrom(input_file_list, time_format, now) ==
  LET built == [i \in 1..Len(input_file_list) |->
                 RayFileFrom(input_file_list[i])]
      file_list == [i \in 1..Len(built) |-> built[i].file]
  IN  IF (\E i \in 1..Len(built) : ~built[i].ok) \/ built = <<>>
      THEN [ok |-> FALSE, file_list |-> <<>>,
            max_len_input |-> 0, max_len_output |-> 0]
      ELSE [ok |-> TRUE, file_list |-> file_list,
            max_len_input |-> MaxLenInput(file_list),
            max_len_output |-> MaxLenOutput(file_list, time_format, now)]

\* RayFileList::get_renamed_file_list; ok = FALSE is the panic of
\* fs::metadata(..).unwrap() on the first entry whose file is missing
GetRenamedFileListSkipMissing(file_list, fsys, time_format) ==
  LET present == SelectSeq(file_list, LAMBDA f : FsExists(fsys, Display(f)))
  IN  [ok |-> TRUE,
       list |-> [i \in 1..Len(present) |->
                   GetRenamedInstance(present[i], fsys, time_format)]]

GetRenamedFileList(file_list, fsys, time_format) ==
  IF \A i \in 1..Len(file_list) : FsExists(fsys, Display(file_list[i]))
  THEN [ok |-> TRUE,
        list |-> [i \in 1..Len(file_list) |->
                    GetRenamedInstance(file_list[i], fsys, time_format)]]
  ELSE [ok |-> FALSE, list |-> <<>>]

\* regex ^[yY]?$ (no multi-line flag: $ is the end of the text)
YesRegexUnanchored(text) == TRUE

YesRegexNoOption(text) == Len(text) = 1 /\ text[1] \in {CH_y, CH_Y}

YesRegexMatch(text) ==
  IF text # <<>> /\ Head(text) \in {CH_y, CH_Y}
  THEN Tail(text) = <<>>
  ELSE text = <<>>

\* regex ^[nN]$
NoRegexMatch(text) ==
  text # <<>> /\ Head(text) \in {CH_n, CH_N} /\ Tail(text) = <<>>

\* one pass of the loop of wait_accepting_prompt over the line read:
\* "accept" = return true, "decline" = return false, "none" = loop again
Classify(buffer) ==
  IF YesRegexMatch(Trim(buffer)) THEN "accept"
  ELSE IF NoRegexMatch(Trim(buffer)) THEN "decline"
  ELSE "none"

\* lines 58-64: where rename_with_modification_time goes after the gate
AfterGateIgnored(result) == "renaming"

AfterGate(result) == IF result = "accept" THEN "renaming" ELSE "declining"

\* line 67-68: the i-th pair of zip(&self.file_list, new_file_list)
ZipPairReversed(file_list, new_list, i) ==
  <<Display(file_list[i]), Display(new_list[Len(new_list) + 1 - i])>>

ZipPair(file_list, new_list, i) ==
  <<Display(file_list[i]), Display(new_list[i])>>

ZipLen(file_list, new_list) == Min2(Len(file_list), Len(new_list))

\* ------------------------------------------------------------------- state
VARIABLES
  args,             \* main.rs: input_paths
  time_format,      \* RayFileList.time_format
  to_print_prompt,  \* argument of rename_with_modification_time
  fs0,              \* the directory when the program starts
  fs,               \* the directory now
  pc,               \* position of the single thread of control
  file_list,        \* RayFileList.file_list
  max_len_input,    \* RayFileList.max_len_input
  max_len_output,   \* RayFileList.max_len_output
  new_file_list,    \* rename_with_modification_time: new_file_list
  stdout,           \* what was printed, in order
  buffer,           \* wait_accepting_prompt: the line last read
  answer,           \* what wait_accepting_prompt returned, "none" before
  renamed,          \* the fs::rename calls that succeeded, in order
  attempted,        \* number of fs::rename calls made
  n_name,           \* RayFile::from alone: its argument
  n_pc,
  n_file,           \* RayFile::from alone: its result
  n_shown,          \* to_string() of n_file
  n_len             \* full_len() of n_file

vars == <<args, time_format, to_print_prompt, fs0, fs, pc, file_list,
          max_len_input, max_len_output, new_file_list, stdout, buffer,
          answer, renamed, attempted, n_name, n_pc, n_file, n_shown, n_len>>

batch_vars == <<args, time_format, to_print_prompt, fs0, fs, pc, file_list,
                max_len_input, max_len_output, new_file_list, stdout, buffer,
                answer, renamed, attempted>>

name_vars == <<n_name, n_pc, n_file, n_shown, n_len>>

\* ------------------------------------------------------------------ inputs
\* "a.b" "c.b" "a." ".a" U+62A5".b" "a" "a/b"
ArgPool ==
  { <<97, DOT, 98>>, <<99, DOT, 98>>, <<97, DOT>>, <<DOT, 97>>,
    <<25253, DOT, 98>>, <<97>>, <<97, SLASH, 98>> }

\* "%S" and the literal pattern "a"
TimeFormats == { <<PERCENT, SPEC_S>>, <<97>> }

\* the names of the directory that a run over input_file_list can touch
Relevant(input_file_list) ==
  {input_file_list[i] : i \in 1..Len(input_file_list)}
  \cup {Display(RayFileFrom(input_file_list[i]).file) :
          i \in {j \in 1..Len(input_file_list) :
                   RayFileFrom(input_file_list[j]).ok}}

Directories(names) == UNION {[S -> Times] : S \in SUBSET names}

\* lines typed at the prompt: "y\n" "\n" "n\n" "yes\n"; <<>> is end of input
\* (read_line returns Ok(0) and leaves the buffer empty)
MainLines == { <<CH_y, 10>>, <<10>>, <<CH_n, 10>>, <<CH_y, 101, 115, 10>>, <<>> }

\* every line of at most MaxLineLen characters over y Y n N space e, with or
\* without its line terminator
LineChars == {CH_y, CH_Y, CH_n, CH_N, 32, 101}

AllLines ==
  {body \o term : body \in SeqsUpTo(LineChars, MaxLineLen),
                  term \in {<<>>, <<10>>}}

\* every name of at most MaxNameLen characters over a . / U+62A5
NameChars == {97, DOT, SLASH, 25253}

AllNames == SeqsUpTo(NameChars, MaxNameLen)

\* -------------------------------------------------------------------- Init
NameIdle ==
  /\ n_name = <<>>
  /\ n_pc = "idle"
  /\ n_file = RayFile(<<>>, <<>>)
  /\ n_shown = <<>>
  /\ n_len = 0

BatchStart ==
  /\ fs = fs0
  /\ pc = "start"
  /\ file_list = <<>>
  /\ max_len_input = 0
  /\ max_len_output = 0
  /\ new_file_list = <<>>
  /\ stdout = <<>>
  /\ buffer = <<>>
  /\ answer = "none"
  /\ renamed = <<>>
  /\ attempted = 0

Init ==
  /\ args \in SeqsUpTo(ArgPool, MaxFiles)
  /\ time_format \in TimeFormats
  /\ to_print_prompt \in BOOLEAN
  /\ fs0 \in Directories(Relevant(args))
  /\ BatchStart
  /\ NameIdle

\* ----------------------------------------------------------------- actions
\* main.rs line 12: RayFileList::from(&input_paths, time_format)
Construct ==
  /\ pc = "start"
  /\ \E now \in Times :
       LET r == RayFileListFrom(args, time_format, now)
       IN  /\ pc' = IF r.ok THEN "constructed" ELSE "panic_construct"
           /\ file_list' = r.file_list
           /\ max_len_input' = r.max_len_input
           /\ max_len_output' = r.max_len_output
  /\ UNCHANGED <<args, time_format, to_print_prompt, fs0, fs, new_file_list,
                 stdout, buffer, answer, renamed, attempted>>
  /\ UNCHANGED name_vars

\* ray_file.rs line 54: let new_file_list = self.get_renamed_file_list()
Plan ==
  /\ pc = "constructed"
  /\ LET r == GetRenamedFileList(file_list, fs, time_format)
     IN  /\ pc' = IF r.ok THEN "planned" ELSE "panic_metadata"
         /\ new_file_list' = r.list
  /\ UNCHANGED <<args, time_format, to_print_prompt, fs0, fs, file_list,
                 max_len_input, max_len_output, stdout, buffer, answer,
                 renamed, attempted>>
  /\ UNCHANGED name_vars

\* print_renaming_header
HeaderLine == <<"header", max_len_input, max_len_output>>

\* print_renaming_operations: the row of the i-th pair
RowLine(i) ==
  <<"row", Display(file_list[i]),
    max_len_input - ChineseOffset(file_list[i]),
    Display(new_file_list[i])>>

\* lines 56-58: the table, then the gate or (prompt disabled) the renames
PrintTable ==
  /\ pc = "planned"
  /\ stdout' = stdout \o <<HeaderLine>>
                 \o [i \in 1..ZipLen(file_list, new_file_list) |-> RowLine(i)]
  /\ pc' = IF to_print_prompt THEN "prompt" ELSE "renaming"
  /\ UNCHANGED <<args, time_format, to_print_prompt, fs0, fs, file_list,
                 max_len_input, max_len_output, new_file_list, buffer,
                 answer, renamed, attempted>>
  /\ UNCHANGED name_vars

PromptCount == Cardinality({i \in 1..Len(stdout) : stdout[i][1] = "prompt"})

\* one pass of the loop of wait_accepting_prompt: print the prompt, read a
\* line, classify it
GateRead(lines) ==
  /\ pc = "prompt"
  /\ PromptCount < MaxPrompts
  /\ \E line \in lines :
       /\ buffer' = line
       /\ answer' = Classify(line)
       /\ pc' = IF Classify(line) = "none" THEN "prompt"
                ELSE AfterGate(Classify(line))
  /\ stdout' = Append(stdout, <<"prompt">>)
  /\ UNCHANGED <<args, time_format, to_print_prompt, fs0, fs, file_list,
                 max_len_input, max_len_output, new_file_list, renamed,
                 attempted>>
  /\ UNCHANGED name_vars

\* lines 61-62: println!("Nothing done."); return
Decline ==
  /\ pc = "declining"
  /\ stdout' = Append(stdout, <<"Nothing done.">>)
  /\ pc' = "returned"
  /\ UNCHANGED <<args, time_format, to_print_prompt, fs0, fs, file_list,
                 max_len_input, max_len_output, new_file_list, buffer,
                 answer, renamed, attempted>>
  /\ UNCHANGED name_vars

NextPair == ZipPair(file_list, new_file_list, attempted + 1)

\* line 68: fs::rename(old, new) returns Ok
RenameOk ==
  /\ pc = "renaming"
  /\ attempted < ZipLen(file_list, new_file_list)
  /\ FsExists(fs, NextPair[1])
  /\ fs' = FsRename(fs, NextPair[1], NextPair[2])
  /\ renamed' = Append(renamed, NextPair)
  /\ attempted' = attempted + 1
  /\ UNCHANGED <<args, time_format, to_print_prompt, fs0, pc, file_list,
                 max_len_input, max_len_output, new_file_list, stdout,
                 buffer, answer>>
  /\ UNCHANGED name_vars

\* line 68: fs::rename(old, new) returns Err (the source is gone, or the
\* system refuses: permission, destination is a directory, ...): unwrap panics
RenameFail ==
  /\ pc = "renaming"
  /\ attempted < ZipLen(file_list, new_file_list)
  /\ attempted' = attempted + 1
  /\ pc' = "panic_rename"
  /\ UNCHANGED <<args, time_format, to_print_prompt, fs0, fs, file_list,
                 max_len_input, max_len_output, new_file_list, stdout,
                 buffer, answer, renamed>>
  /\ UNCHANGED name_vars

\* line 70: the zip is exhausted, the function returns
Finish ==
  /\ pc = "renaming"
  /\ attempted = ZipLen(file_list, new_file_list)
  /\ pc' = "returned"
  /\ UNCHANGED <<args, time_format, to_print_prompt, fs0, fs, file_list,
                 max_len_input, max_len_output, new_file_list, stdout,
                 buffer, answer, renamed, attempted>>
  /\ UNCHANGED name_vars

Next ==
  \/ Construct
  \/ Plan
  \/ PrintTable
  \/ GateRead(MainLines)
  \/ Decline
  \/ RenameOk
  \/ RenameFail
  \/ Finish

Spec == Init /\ [][Next]_vars

\* ------------------------------- the gate over every line up to MaxLineLen
InitGate ==
  /\ args \in {<<<<97, DOT, 98>>>>, <<<<97>>>>}
  /\ time_format = <<PERCENT, SPEC_S>>
  /\ to_print_prompt \in BOOLEAN
  /\ fs0 \in Directories(Relevant(args))
  /\ BatchStart
  /\ NameIdle

NextGate ==
  \/ Construct
  \/ Plan
  \/ PrintTable
  \/ GateRead(AllLines)
  \/ Decline
  \/ RenameOk
  \/ RenameFail
  \/ Finish

SpecGate == InitGate /\ [][NextGate]_vars

\* ------------------------- RayFile alone over every name up to MaxNameLen
InitName ==
  /\ n_name \in AllNames
  /\ n_pc = "start"
  /\ n_file = RayFile(<<>>, <<>>)
  /\ n_shown = <<>>
  /\ n_len = 0
  /\ args = <<>>
  /\ time_format = <<PERCENT, SPEC_S>>
  /\ to_print_prompt = TRUE
  /\ fs0 = <<>>
  /\ BatchStart

\* RayFile::from(n_name)
NameFrom ==
  /\ n_pc = "start"
  /\ n_pc' = IF RayFileFrom(n_name).ok THEN "built" ELSE "panicked"
  /\ n_file' = RayFileFrom(n_name).file
  /\ UNCHANGED <<n_name, n_shown, n_len>>
  /\ UNCHANGED batch_vars

\* n_file.to_string() and n_file.full_len()
NameShow ==
  /\ n_pc = "built"
  /\ n_pc' = "shown"
  /\ n_shown' = Display(n_file)
  /\ n_len' = FullLen(n_file)
  /\ UNCHANGED <<n_name, n_file>>
  /\ UNCHANGED batch_vars

NextName == NameFrom \/ NameShow

SpecName == InitName /\ [][NextName]_vars

\* ================================================================== claims
Panicked == pc \in {"panic_construct", "panic_metadata", "panic_rename"}

NothingDoneCount ==
  Cardinality({i \in 1..Len(stdout) : stdout[i][1] = "Nothing done."})

\* C1: with the prompt enabled no rename is made (or attempted) unless the
\* gate returned accept; once the gate returned decline the directory is
\* the one the program started with, "Nothing done." is printed exactly once
\* by the time the call has returned (and never before the decline), and the
\* call returns normally.
C1_DeclineLeavesDirectory ==
  to_print_prompt =>
    /\ (attempted > 0 \/ renamed # <<>> \/ fs # fs0) => answer = "accept"
    /\ answer = "decline" =>
         /\ fs = fs0 /\ renamed = <<>> /\ attempted = 0
         /\ pc \in {"declining", "returned"}
         /\ NothingDoneCount = (IF pc = "returned" THEN 1 ELSE 0)
    /\ answer # "decline" => NothingDoneCount = 0

C1_Witness ==
  /\ to_print_prompt
  /\ answer = "decline"
  /\ pc = "returned"
  /\ Len(file_list) = 2
  /\ \A i \in 1..2 : FsExists(fs, Display(file_list[i]))

RECURSIVE ApplyRenames(_, _)
ApplyRenames(fsys, log) ==
  IF log = <<>> THEN fsys
  ELSE ApplyRenames(
         [n \in (DOMAIN fsys \ {log[1][1]}) \cup {log[1][2]} |->
            IF n = log[1][2] THEN fsys[log[1][1]] ELSE fsys[n]],
         Tail(log))

\* C2: the renames that succeeded are, in order, entry 1 -> target 1,
\* entry 2 -> target 2, ...: a prefix of the input order; at most one more
\* rename was attempted than succeeded, exactly when the batch has aborted on
\* that failing rename; and the directory is the starting directory with
\* exactly the succeeded renames applied in order (nothing rolled back).
C2_RenamesArePrefix ==
  /\ Len(renamed) <= Len(file_list)
  /\ \A i \in 1..Len(renamed) :
       renamed[i] = <<Display(file_list[i]), Display(new_file_list[i])>>
  /\ attempted \in {Len(renamed), Len(renamed) + 1}
  /\ (attempted = Len(renamed) + 1) <=> (pc = "panic_rename")
  /\ fs = ApplyRenames(fs0, renamed)

C2_Witness ==
  /\ pc = "panic_rename"
  /\ Len(file_list) = 2
  /\ Len(renamed) = 1
  /\ attempted = 2
  /\ fs # fs0
  /\ new_file_list[1] # new_file_list[2]

\* C3: when the modification time of some entry cannot be read (its file is
\* not in the directory), the run never gets past plan computation: it aborts
\* there, with no rename attempted and the directory untouched; so a rename
\* is attempted only after the modification times of all entries were read.
C3_MetadataFailureBeforeRenames ==
  LET unreadable ==
        \E i \in 1..Len(file_list) : ~FsExists(fs0, Display(file_list[i]))
  IN  /\ (pc \notin {"start", "panic_construct"} /\ unreadable) =>
           /\ pc \in {"constructed", "panic_metadata"}
           /\ renamed = <<>> /\ attempted = 0 /\ fs = fs0
      /\ pc = "panic_metadata" =>
           unreadable /\ renamed = <<>> /\ attempted = 0 /\ fs = fs0
      /\ attempted > 0 => Len(new_file_list) = Len(file_list)

C3_Witness ==
  /\ pc = "panic_metadata"
  /\ Len(file_list) = 2
  /\ FsExists(fs0, Display(file_list[1]))
  /\ ~FsExists(fs0, Display(file_list[2]))

\* the text between the first and the last non-whitespace character
Stripped(line) ==
  LET solid == {i \in 1..Len(line) : ~IsWhitespace(line[i])}
  IN  IF solid = {} THEN <<>>
      ELSE SubSeq(line, CHOOSE i \in solid : \A j \in solid : i <= j,
                        CHOOSE i \in solid : \A j \in solid : j <= i)

\* C4: after every line the gate has read, it has returned accept exactly
\* when the trimmed line is empty, "y" or "Y", it has returned decline
\* exactly when the trimmed line is "n" or "N", and otherwise it has not
\* returned and is prompting again.
C4_GateClassification ==
  (to_print_prompt /\ PromptCount > 0) =>
    LET t == Stripped(buffer)
    IN  /\ (answer = "accept") <=> (t \in {<<>>, <<CH_y>>, <<CH_Y>>})
        /\ (answer = "decline") <=> (t \in {<<CH_n>>, <<CH_N>>})
        /\ (answer = "none") <=> (pc = "prompt")
        /\ answer \in {"accept", "decline", "none"}

C4_Witness ==
  /\ PromptCount = 2
  /\ answer = "decline"
  /\ buffer = <<32, CH_N, 10>>
  /\ pc = "returned"

\* C5 as stated: a read at end of input (empty buffer) never makes the gate
\* return accept, so nothing is renamed.
C5_EofNeverAccepts ==
  (to_print_prompt /\ PromptCount > 0 /\ buffer = <<>>) =>
    (answer # "accept" /\ renamed = <<>>)

\* C5 amended: a read at end of input leaves the buffer empty, which the gate
\* classifies as accept: it returns accept on that read, without prompting
\* again, and the renames go ahead.
C5_EofAccepts ==
  (to_print_prompt /\ PromptCount > 0 /\ buffer = <<>>) =>
    (answer = "accept" /\ pc \notin {"prompt", "declining"})

C5_Witness ==
  /\ to_print_prompt
  /\ PromptCount = 2
  /\ buffer = <<>>
  /\ answer = "accept"
  /\ renamed # <<>>
  /\ pc = "returned"

\* C6: for a name that does not start with '.', has no '/' and has a '.',
\* RayFile::from succeeds and to_string() gives the name back.
C6_RoundTrip ==
  (n_pc \in {"panicked", "shown"} /\ ~StartsWith(n_name, DOT)
     /\ ~Contains(n_name, SLASH) /\ Contains(n_name, DOT)) =>
    (n_pc = "shown" /\ n_shown = n_name)

\* C7: for a (non-empty) name with no '.' and no '/', RayFile::from succeeds
\* with the whole name as f_name and an empty f_ext.
C7_NoDotNameConstructs ==
  (n_pc # "start" /\ n_name # <<>>
     /\ ~Contains(n_name, DOT) /\ ~Contains(n_name, SLASH)) =>
    (n_pc # "panicked" /\ n_file = RayFile(n_name, <<>>))

\* C10: full_len() is the number of characters of f_name plus, when f_ext is
\* not empty, 1 plus the number of characters of f_ext.
C10_FullLenCountsCharacters ==
  n_pc = "shown" =>
    n_len = CharLen(n_file.f_name)
            + (IF n_file.f_ext = <<>> THEN 0 ELSE 1 + CharLen(n_file.f_ext))

\* C8: computing the renamed list changes neither the entries, the format,
\* the column widths nor the directory; the list has one element per entry,
\* with the entry's extension and the entry's formatted modification time as
\* base name; computing it again in the state it leaves gives an equal list.
C8_PlanIsPure ==
  [][pc = "constructed" =>
       /\ file_list' = file_list
       /\ time_format' = time_format
       /\ max_len_input' = max_len_input
       /\ max_len_output' = max_len_output
       /\ fs' = fs
       /\ pc' = "planned" =>
            /\ Len(new_file_list') = Len(file_list)
            /\ \A i \in 1..Len(file_list) :
                 /\ new_file_list'[i].f_ext = file_list[i].f_ext
                 /\ new_file_list'[i].f_name =
                      ChronoFormat(fs[Display(file_list[i])], time_format)
            /\ GetRenamedFileList(file_list', fs', time_format').ok
            /\ GetRenamedFileList(file_list', fs', time_format').list
                 = new_file_list']_vars

C8_Witness ==
  /\ pc = "planned"
  /\ Len(new_file_list) = 2
  /\ new_file_list[1].f_name # new_file_list[2].f_name
  /\ new_file_list[1].f_ext # <<>>

\* C9: once a (non-empty) batch is constructed, max_len_input is at least 3
\* and at least the full display length of every entry, in characters as in
\* bytes; the header is printed with that same value, and the value stays
\* through the table, the gate and the renames.
C9_InputColumnWidth ==
  pc \notin {"start", "panic_construct"} =>
    /\ file_list # <<>>
    /\ max_len_input >= 3
    /\ \A i \in 1..Len(file_list) :
         /\ max_len_input >= CharLen(Display(file_list[i]))
         /\ max_len_input >= FullLen(file_list[i])
    /\ \/ max_len_input = 3
       \/ \E i \in 1..Len(file_list) : max_len_input = FullLen(file_list[i])
    /\ stdout # <<>> => stdout[1][2] = max_len_input

C9_Witness ==
  /\ pc = "returned"
  /\ renamed # <<>>
  /\ max_len_input = 3
  /\ \A i \in 1..Len(file_list) : CharLen(Display(file_list[i])) < 3

====
